---- MODULE Spec2Model ----
(***************************************************************************)
(* Model of the two services of the repository:                            *)
(*   - the data-source service (agent_source.py): GET /health,             *)
(*     GET /portfolio, GET /portfolio/csv on top of the brokerage SDK;     *)
(*   - the chat-bot service (main_bot.py, app.py): the Telegram webhook,   *)
(*     the /portfolio, /start and free-text handlers.                      *)
(*                                                                         *)
(* Conventions.                                                            *)
(*   - A Python value that may be None is a sequence: <<>> is None and     *)
(*     <<v>> is the value v.                                               *)
(*   - A Python float is an exact decimal counted in ticks of 1/1000; the  *)
(*     inputs are chosen so that no value lies on a rounding tie, where    *)
(*     the binary representation would decide.  round(x, 2) yields a count *)
(*     of hundredths.                                                      *)
(*   - An exception is a record [type, text]; a computation that may raise *)
(*     returns a record with a field raised (<<>> or <<exception>>).       *)
(*   - Message texts of the program are rendered in ASCII.                 *)
(***************************************************************************)
EXTENDS Integers, Sequences, FiniteSets, TLC

\* ---------------------------------------------------------------- bounds
MaxPositions == 2
MaxChat == 2

\* ------------------------------------------------------------ exceptions
Exc(type, text) == [type |-> type, text |-> text]

\* Python's class hierarchy of the exception types that occur (direct
\* parent of each type; RequestError derives from InvestError(Exception)).
ExcParent(type) ==
  CASE type = "RequestError" -> "Exception"
    [] type = "RuntimeError" -> "Exception"
    [] type = "NotImplementedError" -> "RuntimeError"
    [] type = "ValueError" -> "Exception"
    [] type = "ZeroDivisionError" -> "Exception"
    [] type = "UnicodeDecodeError" -> "ValueError"
    [] type = "JSONDecodeError" -> "ValueError"
    [] type = "KeyError" -> "Exception"
    [] type = "ApiTelegramException" -> "Exception"
    [] type = "RequestException" -> "Exception"
    [] type = "ConnectionError" -> "RequestException"
    [] type = "Timeout" -> "RequestException"
    [] type = "HTTPError" -> "RequestException"
    [] OTHER -> "Exception"

RECURSIVE IsInstance(_, _)
IsInstance(type, cls) ==
  IF type = cls THEN TRUE
  ELSE IF type = "Exception" THEN FALSE
  ELSE IsInstance(ExcParent(type), cls)

\* ------------------------------------------------------- float arithmetic
NanoPerUnit == 1000000000
TicksPerUnit == 10 * 10 * 10
NanoPerTick == NanoPerUnit \div TicksPerUnit

Abs(x) == IF x < 0 THEN -x ELSE x

\* nearest integer to n / d for d # 0, ties to even (Python's round)
RoundDiv(n, d) ==
  LET nn == IF d < 0 THEN -n ELSE n
      dd == Abs(d)
      q == nn \div dd
      r == nn % dd
  IN  IF 2 * r < dd THEN q
      ELSE IF 2 * r > dd THEN q + 1
      ELSE IF q % 2 = 0 THEN q ELSE q + 1

\* round(x, 2) of a float given in ticks: a count of hundredths
Round2(x) == RoundDiv(x * 100, TicksPerUnit)

\* m: <<>> (None, or an object without units/nano) or <<[units, nano]>>
money_to_float(m) ==
  IF m = <<>> THEN 0
  ELSE m[1].units * TicksPerUnit + m[1].nano \div NanoPerTick

\* a / b on floats: raises ZeroDivisionError when b is 0; the quotient is
\* kept exact as the pair <<numerator, denominator>>
TrueDiv(a, b) ==
  IF b = 0 THEN [raised |-> <<Exc("ZeroDivisionError", "float division by zero")>>,
                 num |-> 0, den |-> 1]
  ELSE [raised |-> <<>>, num |-> a, den |-> b]

\* total_pos_value = current_price * qty if current_price and qty else 0.0
total_pos_value(current_price, qty) ==
  IF current_price # 0 /\ qty # 0 THEN current_price * qty ELSE 0

\* yield_pct = (expected_yield_val / total_pos_value * 100) if total_pos_value else 0.0
yield_pct_unguarded(expected_yield_val, tpv) ==
  TrueDiv(expected_yield_val * 100, tpv)

yield_pct(expected_yield_val, tpv) ==
  IF tpv # 0 THEN TrueDiv(expected_yield_val * 100, tpv)
  ELSE [raised |-> <<>>, num |-> 0, den |-> 1]

\* the test "quantity is None or quantity.units == 0" of the loop
skip_position_none_only(p) == p.quantity = <<>>

skip_position(p) == p.quantity = <<>> \/ p.quantity[1].units = 0

\* the dict appended for one position (the position is not skipped)
row_of(p) ==
  LET current_price == money_to_float(p.current_price)
      expected_yield_val == money_to_float(p.expected_yield)
      qty == p.quantity[1].units
      tpv == total_pos_value(current_price, qty)
      y == yield_pct(expected_yield_val, tpv)
  IN  [raised |-> y.raised,
       row |-> [figi |-> p.figi,
                ticker |-> p.ticker,
                name |-> p.name,
                instrument_type |-> p.instrument_type,
                quantity |-> qty,
                price_rub |-> Round2(current_price),
                position_value_rub |-> Round2(tpv),
                expected_yield_rub |-> Round2(expected_yield_val),
                expected_yield_pct |-> RoundDiv(y.num * 100, y.den)]]

\* the for loop inside the try: the rows appended up to the first exception
RECURSIVE rows_loop(_, _, _)
rows_loop(positions, i, rows) ==
  IF i > Len(positions) THEN [rows |-> rows, raised |-> <<>>]
  ELSE IF skip_position(positions[i]) THEN rows_loop(positions, i + 1, rows)
  ELSE LET r == row_of(positions[i])
       IN  IF r.raised # <<>> THEN [rows |-> rows, raised |-> r.raised]
           ELSE rows_loop(positions, i + 1, Append(rows, r.row))

LogRec(level, msg, detail) == [level |-> level, msg |-> msg, detail |-> detail]

\* portfolio: [total_amount_portfolio: <<>> or <<money>>, positions: Seq]
\* result: the DataFrame [rows, attrs] and the log records written
portfolio_to_dataframe(portfolio) ==
  LET total_value == IF portfolio.total_amount_portfolio # <<>>
                     THEN <<money_to_float(portfolio.total_amount_portfolio)>>
                     ELSE <<>>
      loop == rows_loop(portfolio.positions, 1, <<>>)
  IN  [df |-> [rows |-> loop.rows,
               attrs |-> << <<"total_value_rub",
                              IF total_value # <<>> THEN <<Round2(total_value[1])>>
                              ELSE <<>> >> >>],
       log |-> IF loop.raised # <<>>
               THEN <<LogRec("exception", "portfolio -> DataFrame conversion failed",
                             loop.raised[1].text)>>
               ELSE <<>>]

\* pd.DataFrame(): no rows, no attrs
EmptyDataFrame == [rows |-> <<>>, attrs |-> <<>>]

\* df.empty
df_empty(df) == Len(df.rows) = 0

\* attrs.get(key, None)
RECURSIVE attrs_get(_, _)
attrs_get(attrs, key) ==
  IF attrs = <<>> THEN <<>>
  ELSE IF Head(attrs)[1] = key THEN Head(attrs)[2]
  ELSE attrs_get(Tail(attrs), key)

\* --------------------------------------------------- data-source service
\* The brokerage's behaviour during one request:
\*   kind "open_raises"      Client(...).__enter__ raises exc
\*   kind "accounts_raises"  users.get_accounts raises exc
\*   kind "no_accounts"      get_accounts returns an empty list
\*   kind "portfolio_raises" operations.get_portfolio raises exc
\*   kind "portfolio"        get_portfolio returns portfolio
TokenMissingText == "TINKOFF_API_TOKEN is not set"

fetch_result(raised, df, calls, log) ==
  [raised |-> raised, df |-> df, calls |-> calls, log |-> log]

\* the two except clauses of fetch_tinkoff_portfolio: log and re-raise
fetch_reraise(e, calls) ==
  fetch_result(<<e>>, EmptyDataFrame, calls,
               IF IsInstance(e.type, "RequestError")
               THEN <<LogRec("error", "RequestError from Tinkoff", e.text)>>
               ELSE <<LogRec("exception", "unexpected error in fetch_tinkoff_portfolio", e.text)>>)

\* the with-block of fetch_tinkoff_portfolio and its except clauses
fetch_with_client(token, upstream) ==
  IF upstream.kind = "open_raises" THEN fetch_reraise(upstream.exc, <<"Client">>)
  ELSE IF upstream.kind = "accounts_raises"
  THEN fetch_reraise(upstream.exc, <<"Client", "get_accounts">>)
  ELSE IF upstream.kind = "no_accounts"
  THEN fetch_result(<<>>, EmptyDataFrame, <<"Client", "get_accounts">>,
                    <<LogRec("info", "no accounts available", "")>>)
  ELSE IF upstream.kind = "portfolio_raises"
  THEN fetch_reraise(upstream.exc, <<"Client", "get_accounts", "get_portfolio">>)
  ELSE LET c == portfolio_to_dataframe(upstream.portfolio)
       IN  fetch_result(<<>>, c.df, <<"Client", "get_accounts", "get_portfolio">>,
                        <<LogRec("info", "portfolio request for first account", "")>> \o c.log)

fetch_tinkoff_portfolio_no_empty_check(token, upstream) ==
  IF token = <<>> \/ token = <<"">>
  THEN fetch_result(<<Exc("RuntimeError", TokenMissingText)>>, EmptyDataFrame, <<>>, <<>>)
  ELSE IF upstream.kind = "no_accounts"
  THEN fetch_reraise(Exc("IndexError", "list index out of range"),
                     <<"Client", "get_accounts">>)
  ELSE fetch_with_client(token, upstream)

fetch_tinkoff_portfolio_no_token_check(token, upstream) == fetch_with_client(token, upstream)

\* token: <<>> (unset), <<"">> (set to the empty string) or <<"t...">>
fetch_tinkoff_portfolio(token, upstream) ==
  IF token = <<>> \/ token = <<"">>
  THEN fetch_result(<<Exc("RuntimeError", TokenMissingText)>>, EmptyDataFrame, <<>>, <<>>)
  ELSE fetch_with_client(token, upstream)

\* ---- presentation
Columns == <<"figi", "ticker", "name", "instrument_type", "quantity", "price_rub",
             "position_value_rub", "expected_yield_rub", "expected_yield_pct">>
TextColumns == {"figi", "ticker", "name", "instrument_type"}

\* a value inside a JSON document: null or a value
JsonValue(v) == IF v = <<>> THEN [t |-> "null"] ELSE [t |-> "value", v |-> v[1]]

\* df.to_dict(orient="records") followed by jsonify: one object per row
to_dict_records(df) ==
  [i \in 1..Len(df.rows) |->
     [c \in {Columns[k] : k \in 1..Len(Columns)} |->
        IF c \in TextColumns THEN JsonValue(df.rows[i][c])
        ELSE JsonValue(<<df.rows[i][c]>>)]]

\* a CSV cell: <<>> is the empty cell (None is written as nothing)
CsvCell(v) == IF v = <<>> THEN <<>> ELSE <<v[1]>>

\* df.to_csv(index=False): the header line, then one line of cells per row
to_csv_with_index(df) ==
  [header |-> <<"">> \o Columns,
   lines |-> [i \in 1..Len(df.rows) |->
                <<CsvCell(<<i - 1>>)>> \o
                [k \in 1..Len(Columns) |->
                   IF Columns[k] \in TextColumns THEN CsvCell(df.rows[i][Columns[k]])
                   ELSE CsvCell(<<df.rows[i][Columns[k]]>>)]]]

to_csv(df) ==
  [header |-> Columns,
   lines |-> [i \in 1..Len(df.rows) |->
                [k \in 1..Len(Columns) |->
                   IF Columns[k] \in TextColumns THEN CsvCell(df.rows[i][Columns[k]])
                   ELSE CsvCell(<<df.rows[i][Columns[k]]>>)]]]

\* the literal "position_count\n0\n"
EmptyCsv == [header |-> <<"position_count">>, lines |-> << << <<0>> >> >>]

NoBody == [t |-> "none"]
ErrorBody(error, details) == [t |-> "error", error |-> error, details |-> details]

Response(route, status, mimetype, body, f) ==
  [route |-> route, status |-> status, mimetype |-> mimetype, body |-> body,
   calls |-> f.calls, log |-> f.log]

\* GET /health
health == [route |-> "/health", status |-> 200, mimetype |-> "application/json",
           body |-> [t |-> "health", status |-> "ok"], calls |-> <<>>, log |-> <<>>]

WithLog(f, rec) == [f EXCEPT !.log = @ \o <<rec>>]

\* the except clauses of portfolio_json, tried in order
portfolio_json_error_no_request_clause(e, f) ==
  IF IsInstance(e.type, "RuntimeError")
  THEN Response("/portfolio", 500, "application/json", ErrorBody(e.text, <<>>),
                WithLog(f, LogRec("error", "Runtime error", e.text)))
  ELSE Response("/portfolio", 500, "application/json",
                ErrorBody("Internal Server Error", <<e.text>>),
                WithLog(f, LogRec("exception", "error handling /portfolio", e.text)))

portfolio_json_error(e, f) ==
  IF IsInstance(e.type, "RuntimeError")
  THEN Response("/portfolio", 500, "application/json", ErrorBody(e.text, <<>>),
                WithLog(f, LogRec("error", "Runtime error", e.text)))
  ELSE IF IsInstance(e.type, "RequestError")
  THEN Response("/portfolio", 502, "application/json",
                ErrorBody("Tinkoff API communication error", <<e.text>>),
                WithLog(f, LogRec("error", "Tinkoff RequestError", e.text)))
  ELSE Response("/portfolio", 500, "application/json",
                ErrorBody("Internal Server Error", <<e.text>>),
                WithLog(f, LogRec("exception", "error handling /portfolio", e.text)))

\* GET /portfolio
portfolio_json(token, upstream) ==
  LET f == fetch_tinkoff_portfolio(token, upstream)
  IN  IF f.raised = <<>>
      THEN Response("/portfolio", 200, "application/json",
                    [t |-> "portfolio",
                     total_value_rub |-> JsonValue(attrs_get(f.df.attrs, "total_value_rub")),
                     positions |-> to_dict_records(f.df)], f)
      ELSE portfolio_json_error(f.raised[1], f)

\* GET /portfolio/csv
portfolio_csv(token, upstream) ==
  LET f == fetch_tinkoff_portfolio(token, upstream)
  IN  IF f.raised = <<>>
      THEN IF df_empty(f.df)
           THEN Response("/portfolio/csv", 200, "text/csv", [t |-> "csv", csv |-> EmptyCsv], f)
           ELSE Response("/portfolio/csv", 200, "text/csv", [t |-> "csv", csv |-> to_csv(f.df)], f)
      ELSE LET e == f.raised[1]
           IN  Response("/portfolio/csv", 500, "application/json",
                        ErrorBody("Internal Server Error", <<e.text>>),
                        WithLog(f, LogRec("exception", "error handling /portfolio/csv", e.text)))
\* ------------------------------------------------------------------ state
VARIABLES
  TINKOFF_API_TOKEN,  \* module-level configuration of the data-source service
  brokerage,          \* the portfolio the brokerage holds for the first account
  request,            \* the last request it served and what the brokerage did
  response,           \* the response to that request, the calls made, the log
  update,             \* the last webhook POST of the chat-bot service
  outcome,            \* what that POST led to
  chat                \* the messages sent to the chat so far

vars == <<TINKOFF_API_TOKEN, brokerage, request, response, update, outcome, chat>>
agentVars == <<TINKOFF_API_TOKEN, brokerage, request, response>>
botVars == <<update, outcome, chat>>

\* ---- inputs of the data-source service
Money(units, nano) == [units |-> units, nano |-> nano]

Tokens == {<<>>, <<"">>, <<"t.token">>}

Figis == {<<"BBG1">>}
Quantities == {<<>>, <<Money(0, 500000000)>>, <<Money(10, 0)>>}
Prices == {<<Money(0, 0)>>, <<Money(100, 500000000)>>}
Yields == {<<Money(50, 0)>>, <<Money(-1, -500000000)>>}
Totals == {<<>>, <<Money(1105, 500000000)>>}

Positions ==
  [figi : Figis, ticker : {<<>>}, name : {<<>>}, instrument_type : {<<"share">>},
   quantity : Quantities, current_price : Prices, expected_yield : Yields]

RECURSIVE SeqsUpTo(_, _)
SeqsUpTo(S, n) ==
  IF n = 0 THEN {<<>>}
  ELSE LET shorter == SeqsUpTo(S, n - 1)
       IN  shorter \cup {Append(q, x) : q \in {r \in shorter : Len(r) = n - 1}, x \in S}

Portfolios ==
  [total_amount_portfolio : Totals, positions : SeqsUpTo(Positions, MaxPositions)]

NoPortfolio == [total_amount_portfolio |-> <<>>, positions |-> <<>>]
NoExc == Exc("", "")

UpstreamExcs == {Exc("RequestError", "UNAUTHENTICATED 40003"),
                 Exc("ValueError", "internal detail of the failure"),
                 Exc("NotImplementedError", "internal detail of the SDK")}

\* what the brokerage can do during one request when it holds portfolio p
Upstreams(p) ==
  [kind : {"open_raises", "accounts_raises", "portfolio_raises"},
   exc : UpstreamExcs, portfolio : {NoPortfolio}]
  \cup [kind : {"no_accounts"}, exc : {NoExc}, portfolio : {NoPortfolio}]
  \cup [kind : {"portfolio"}, exc : {NoExc}, portfolio : {p}]

NoRequest == [route |-> "", upstream |-> [kind |-> "", exc |-> NoExc, portfolio |-> NoPortfolio]]
NoResponse == [route |-> "", status |-> 0, mimetype |-> "", body |-> NoBody,
               calls |-> <<>>, log |-> <<>>]

InitAgent ==
  /\ TINKOFF_API_TOKEN \in Tokens
  /\ brokerage \in Portfolios
  /\ request = NoRequest
  /\ response = NoResponse

\* ---- requests to the data-source service
GetHealth ==
  /\ request' = [NoRequest EXCEPT !.route = "/health"]
  /\ response' = health
  /\ UNCHANGED <<TINKOFF_API_TOKEN, brokerage, botVars>>

GetPortfolio ==
  \E u \in Upstreams(brokerage) :
    /\ request' = [route |-> "/portfolio", upstream |-> u]
    /\ response' = portfolio_json(TINKOFF_API_TOKEN, u)
    /\ UNCHANGED <<TINKOFF_API_TOKEN, brokerage, botVars>>

GetPortfolioCsv ==
  \E u \in Upstreams(brokerage) :
    /\ request' = [route |-> "/portfolio/csv", upstream |-> u]
    /\ response' = portfolio_csv(TINKOFF_API_TOKEN, u)
    /\ UNCHANGED <<TINKOFF_API_TOKEN, brokerage, botVars>>

AgentNext == GetHealth \/ GetPortfolio \/ GetPortfolioCsv
\* -------------------------------------------------------- chat-bot service
AGENT_SOURCE_URL == "http://127.0.0.1:8000"

\* A message is the sequence of the parts its f-string is made of.
CouldNotReachAgent ==
  <<"Error: could not reach the Agent at ", AGENT_SOURCE_URL,
    ". Check whether the agent is running.">>
NoReportDefault == <<"Error: the Agent returned no report.">>
UnknownAgentError(e) == <<"Unknown error while querying the Agent: ", e.text>>
OpenRouterHttpError(status) == <<"OpenRouter error (code ", status, ").">>
OpenRouterOtherError(e) == <<"Error while calling OpenRouter: ", e.text>>
Greeting == <<"Hello. I am the agent bot. Use /portfolio to see your investments.">>

\* requests.Response: truth value is .ok, i.e. raise_for_status would not raise
HttpErrorStatus(status_code) == 400 <= status_code /\ status_code < 600
ResponseBool(r) == ~HttpErrorStatus(r.status_code)

\* What the data-source service does to requests.get(url, timeout=30):
\*   kind "connection_error", "timeout": requests raises
\*   kind "status": a response with status_code and a JSON body
\*     json "report" {"report": report}, "no_report" {}, "not_object" []
get_portfolio_from_agent_connection_only(agent) ==
  IF agent.kind = "connection_error" THEN CouldNotReachAgent
  ELSE IF agent.kind = "timeout"
  THEN UnknownAgentError(Exc("Timeout", "read timed out"))
  ELSE IF HttpErrorStatus(agent.status_code)
  THEN UnknownAgentError(Exc("HTTPError", "error status"))
  ELSE IF agent.json = "report" THEN agent.report
  ELSE IF agent.json = "no_report" THEN NoReportDefault
  ELSE UnknownAgentError(Exc("AttributeError", "'list' object has no attribute 'get'"))

get_portfolio_from_agent(agent) ==
  LET raised ==
        IF agent.kind = "connection_error"
        THEN <<Exc("ConnectionError", "connection refused")>>
        ELSE IF agent.kind = "timeout" THEN <<Exc("Timeout", "read timed out")>>
        ELSE IF HttpErrorStatus(agent.status_code)
        THEN <<Exc("HTTPError", "error status")>>
        ELSE IF agent.json = "not_object"
        THEN <<Exc("AttributeError", "'list' object has no attribute 'get'")>>
        ELSE <<>>
  IN  IF raised = <<>>
      THEN IF agent.json = "report" THEN agent.report ELSE NoReportDefault
      ELSE IF IsInstance(raised[1].type, "RequestException") THEN CouldNotReachAgent
      ELSE UnknownAgentError(raised[1])

\* What OpenRouter does to requests.post(url, ..., timeout=60):
\*   kind "connection_error", "timeout": requests raises
\*   kind "status": a response with status_code
\*     json "answer" (a completion), "malformed" (no choices)
get_openrouter_response(prompt, llm) ==
  IF llm.kind = "connection_error"
  THEN OpenRouterOtherError(Exc("ConnectionError", "connection refused"))
  ELSE IF llm.kind = "timeout"
  THEN OpenRouterOtherError(Exc("Timeout", "read timed out"))
  ELSE IF HttpErrorStatus(llm.status_code)
  THEN \* except HTTPError as e: e.response is the response raise_for_status ran on
       LET e_response == [status_code |-> llm.status_code]
           status == IF ResponseBool(e_response) THEN ToString(e_response.status_code)
                     ELSE "?"
       IN  OpenRouterHttpError(status)
  ELSE IF llm.json = "answer" THEN llm.answer
  ELSE OpenRouterOtherError(Exc("KeyError", "'choices'"))

\* ---- handlers.  telegram: "ok", "action_fails" (send_chat_action raises),
\* "reply_fails" (reply_to raises).  Result: the messages sent to the chat
\* and the exception that left the handler.
TelegramDown == Exc("ApiTelegramException", "request to the Telegram API was unsuccessful")

Handled(name, sent, raised) == [handler |-> name, sent |-> sent, raised |-> raised]

reply_to(name, telegram, text) ==
  IF telegram = "reply_fails" THEN Handled(name, <<>>, <<TelegramDown>>)
  ELSE Handled(name, <<text>>, <<>>)

cmd_portfolio(u) ==
  IF u.telegram = "action_fails" THEN Handled("cmd_portfolio", <<>>, <<TelegramDown>>)
  ELSE reply_to("cmd_portfolio", u.telegram, get_portfolio_from_agent(u.agent))

cmd_start(u) == reply_to("cmd_start", u.telegram, Greeting)

handle_message(u) ==
  IF u.telegram = "action_fails" THEN Handled("handle_message", <<>>, <<TelegramDown>>)
  ELSE reply_to("handle_message", u.telegram, get_openrouter_response(u.text, u.llm))

\* bot.process_new_updates: the first registered handler whose filter
\* accepts the message runs (cmd_portfolio, cmd_start, handle_message)
process_new_updates(u) ==
  IF u.body # "message" THEN Handled("", <<>>, <<>>)
  ELSE IF u.text = "/portfolio" THEN cmd_portfolio(u)
  ELSE IF u.text \in {"/start", "/help"} THEN cmd_start(u)
  ELSE handle_message(u)

\* POST /<telegram-token>.  body: "bad_utf8" (bytes that are not UTF-8),
\* "bad_json" (text that is not a JSON update), "other" (an update without
\* a message), "message" (an update with a text message).
\* The TeleBot is built with threaded left at its default: handlers run on
\* the worker pool and their exceptions stay there.
WebhookResult(status, raised, h) ==
  [status |-> status, raised |-> raised, handler |-> h.handler, sent |-> h.sent,
   handler_raised |-> h.raised]

telegram_webhook(u) ==
  IF u.body = "bad_utf8"
  THEN WebhookResult(500, <<Exc("UnicodeDecodeError", "invalid start byte")>>,
                     Handled("", <<>>, <<>>))
  ELSE IF u.body = "bad_json"
  THEN WebhookResult(500, <<Exc("JSONDecodeError", "Expecting value")>>,
                     Handled("", <<>>, <<>>))
  ELSE WebhookResult(200, <<>>, process_new_updates(u))

\* GET /
index == WebhookResult(200, <<>>, Handled("index", <<>>, <<>>))
\* ---- inputs of the chat-bot service
NoAgent == [kind |-> "", status_code |-> 0, json |-> "", report |-> <<>>]
NoLlm == [kind |-> "", status_code |-> 0, json |-> "", answer |-> <<>>]

AgentErrorStatuses == {404, 500, 502}
Agents ==
  [kind : {"connection_error", "timeout"}, status_code : {0}, json : {""}, report : {<<>>}]
  \cup [kind : {"status"}, status_code : AgentErrorStatuses, json : {"no_report"},
        report : {<<>>}]
  \cup [kind : {"status"}, status_code : {200}, json : {"no_report", "not_object"},
        report : {<<>>}]
  \cup [kind : {"status"}, status_code : {200}, json : {"report"},
        report : {<<"<b>Total</b>: 1105.50 RUB">>}]

LlmErrorStatuses == {400, 401, 404, 429, 500, 503}
Llms ==
  [kind : {"connection_error", "timeout"}, status_code : {0}, json : {""}, answer : {<<>>}]
  \cup [kind : {"status"}, status_code : LlmErrorStatuses, json : {"malformed"},
        answer : {<<>>}]
  \cup [kind : {"status"}, status_code : {200}, json : {"malformed"}, answer : {<<>>}]
  \cup [kind : {"status"}, status_code : {200}, json : {"answer"},
        answer : {<<"Hello, how can I help?">>}]

Telegrams == {"ok", "action_fails", "reply_fails"}

Updates ==
  [body : {"bad_utf8", "bad_json", "other"}, text : {""}, telegram : {"ok"},
   agent : {NoAgent}, llm : {NoLlm}]
  \cup [body : {"message"}, text : {"/portfolio"}, telegram : Telegrams,
        agent : Agents, llm : {NoLlm}]
  \cup [body : {"message"}, text : {"/start", "/help"}, telegram : Telegrams,
        agent : {NoAgent}, llm : {NoLlm}]
  \cup [body : {"message"}, text : {"what is a bond?"}, telegram : Telegrams,
        agent : {NoAgent}, llm : Llms]

NoUpdate == [body |-> "", text |-> "", telegram |-> "ok", agent |-> NoAgent, llm |-> NoLlm]
NoOutcome == WebhookResult(0, <<>>, Handled("", <<>>, <<>>))

InitBot ==
  /\ update = NoUpdate
  /\ outcome = NoOutcome
  /\ chat = <<>>

\* ---- requests to the chat-bot service
PostTelegramWebhook ==
  \E u \in Updates :
    LET r == telegram_webhook(u)
    IN  /\ Len(chat) + Len(r.sent) <= MaxChat
        /\ update' = u
        /\ outcome' = r
        /\ chat' = chat \o r.sent
        /\ UNCHANGED agentVars

GetIndex ==
  /\ update' = [NoUpdate EXCEPT !.body = "GET /"]
  /\ outcome' = index
  /\ UNCHANGED <<chat, agentVars>>

BotNext == PostTelegramWebhook \/ GetIndex

\* ---------------------------------------------------------- specifications
\* the data-source service on its own: any token, any portfolio held upstream
InitAgentService == InitAgent /\ InitBot
SpecAgent == InitAgentService /\ [][AgentNext]_vars

\* the chat-bot service on its own (the data-source service is a separate
\* process, seen only through the outcomes of the HTTP call to it)
InitBotService ==
  /\ TINKOFF_API_TOKEN = <<>>
  /\ brokerage = NoPortfolio
  /\ request = NoRequest
  /\ response = NoResponse
  /\ InitBot
SpecBot == InitBotService /\ [][BotNext]_vars
\* ================================================================= claims
\* ---- vocabulary of the data-source claims (about the last request served)
TokenAbsent == TINKOFF_API_TOKEN = <<>> \/ TINKOFF_API_TOKEN = <<"">>
PortfolioRoutes == {"/portfolio", "/portfolio/csv"}
Served == request.route \in PortfolioRoutes
UpstreamRaises ==
  request.upstream.kind \in {"open_raises", "accounts_raises", "portfolio_raises"}
UpstreamError ==
  Served /\ ~TokenAbsent /\ UpstreamRaises /\ request.upstream.exc.type = "RequestError"
UnanticipatedFailure ==
  Served /\ ~TokenAbsent /\ UpstreamRaises /\ request.upstream.exc.type # "RequestError"
Fetched == Served /\ ~TokenAbsent /\ request.upstream.kind = "portfolio"
NoAccounts == Served /\ ~TokenAbsent /\ request.upstream.kind = "no_accounts"

\* the texts a response body shows to the caller
BodyTexts(body) ==
  IF body.t = "error"
  THEN {body.error} \cup {body.details[k] : k \in 1..Len(body.details)}
  ELSE {}
LogDetails(log) == {log[k].detail : k \in 1..Len(log)}

C4_NoInternalLeak ==
  UnanticipatedFailure =>
    /\ response.body.t = "error"
    /\ request.upstream.exc.text \notin BodyTexts(response.body)
    /\ request.upstream.exc.text \in LogDetails(response.log)

\* C5: when the brokerage returns an empty account list the fetch makes no
\* get_portfolio call and the answer is HTTP 200 with an explicit empty
\* portfolio: total_value_rub null and no positions on GET /portfolio, a
\* position_count column holding 0 on GET /portfolio/csv.
C5_NoAccountsEmpty200 ==
  NoAccounts =>
    /\ response.status = 200
    /\ response.calls = <<"Client", "get_accounts">>
    /\ request.route = "/portfolio" =>
          /\ response.body.t = "portfolio"
          /\ response.body.total_value_rub = [t |-> "null"]
          /\ response.body.positions = <<>>
    /\ request.route = "/portfolio/csv" =>
          /\ response.body.t = "csv"
          /\ response.body.csv.header = <<"position_count">>
          /\ response.body.csv.lines = << << <<0>> >> >>

C5_Witness ==
  /\ NoAccounts
  /\ request.route = "/portfolio/csv"
  /\ Len(brokerage.positions) > 0
  /\ response.status = 200
  /\ response.body.t = "csv"

\* ---- vocabulary of the claims about portfolio_to_dataframe
NonZeroQuantity(p) == p.quantity # <<>> /\ p.quantity[1].units # 0
\* the positions of the fetched portfolio that hold a non-zero quantity
Kept == SelectSeq(request.upstream.portfolio.positions, NonZeroQuantity)
Converted == portfolio_to_dataframe(request.upstream.portfolio)
Rows == Converted.df.rows

\* C8: the rows produced by portfolio_to_dataframe are exactly the positions
\* with non-zero quantity units, each once and in the upstream order; no
\* position with quantity units 0 or without a quantity yields a row.
C8_ZeroQuantityExcluded ==
  Fetched =>
    /\ Len(Rows) = Len(Kept)
    /\ \A i \in 1..Len(Rows) :
          /\ Rows[i].quantity # 0
          /\ Rows[i].quantity = Kept[i].quantity[1].units
          /\ Rows[i].figi = Kept[i].figi
          /\ Rows[i].price_rub = Round2(money_to_float(Kept[i].current_price))
          /\ Rows[i].expected_yield_rub = Round2(money_to_float(Kept[i].expected_yield))
    /\ request.route = "/portfolio" => Len(response.body.positions) = Len(Kept)
    /\ (request.route = "/portfolio/csv" /\ Len(Kept) > 0) =>
          Len(response.body.csv.lines) = Len(Kept)

C8_Witness ==
  /\ Fetched
  /\ request.route = "/portfolio"
  /\ Len(request.upstream.portfolio.positions) = 2
  /\ ~NonZeroQuantity(request.upstream.portfolio.positions[1])
  /\ NonZeroQuantity(request.upstream.portfolio.positions[2])
  /\ Len(response.body.positions) = 1

\* C9: every output row's yield percentage is expected yield / (price *
\* quantity) * 100 rounded to 2 places, it is 0 whenever price * quantity
\* is 0, and the conversion never divides by zero (no position is lost to
\* an exception and nothing is logged by the conversion).
C9_YieldPct ==
  Fetched =>
    /\ Len(Rows) = Len(Kept)
    /\ Converted.log = <<>>
    /\ \A i \in 1..Len(Rows) :
          LET price == money_to_float(Kept[i].current_price)
              ey == money_to_float(Kept[i].expected_yield)
              value == price * Kept[i].quantity[1].units
          IN  /\ Rows[i].position_value_rub = Round2(value)
              /\ value = 0 => Rows[i].expected_yield_pct = 0
              /\ value # 0 => Rows[i].expected_yield_pct = RoundDiv(ey * 100 * 100, value)
    /\ \A k \in 1..Len(response.log) : response.log[k].level # "exception"

C9_Witness ==
  /\ Fetched
  /\ \E i \in 1..Len(Rows) :
        /\ Rows[i].position_value_rub = 0
        /\ Rows[i].expected_yield_rub # 0
        /\ Rows[i].expected_yield_pct = 0
  /\ \E i \in 1..Len(Rows) : Rows[i].expected_yield_pct = 498

\* ---- vocabulary of the claim about the two renderings
\* what a reader of each document sees: per line, field name -> value,
\* where a JSON null and an empty CSV cell both read as the absent value <<>>
JsonRecords(positions) ==
  [i \in 1..Len(positions) |->
     [c \in DOMAIN positions[i] |->
        IF positions[i][c].t = "null" THEN <<>> ELSE <<positions[i][c].v>>]]
CsvRecords(csv) ==
  [i \in 1..Len(csv.lines) |->
     [c \in {csv.header[k] : k \in 1..Len(csv.header)} |->
        csv.lines[i][CHOOSE k \in 1..Len(csv.header) : csv.header[k] = c]]]
JsonOfRequest == portfolio_json(TINKOFF_API_TOKEN, request.upstream)
CsvOfRequest == portfolio_csv(TINKOFF_API_TOKEN, request.upstream)
Rendered ==
  /\ Served /\ ~TokenAbsent /\ ~UpstreamRaises
  /\ response = IF request.route = "/portfolio" THEN JsonOfRequest ELSE CsvOfRequest

Posted == update.body \in {"bad_utf8", "bad_json", "other", "message"}
PortfolioCommand == update.body = "message" /\ update.text = "/portfolio"
FreeText ==
  update.body = "message" /\ update.text \notin {"/portfolio", "/start", "/help"}
AgentUnreachable ==
  \/ update.agent.kind \in {"connection_error", "timeout"}
  \/ update.agent.kind = "status" /\ HttpErrorStatus(update.agent.status_code)
LlmHttpError == update.llm.kind = "status" /\ HttpErrorStatus(update.llm.status_code)
Parts(message) == {message[k] : k \in 1..Len(message)}

\* C3: on the free-text path, whenever the chat-completion call fails with
\* an HTTP error status, the reply of get_openrouter_response includes that
\* status code.
C3_ReplyHasStatus ==
  (FreeText /\ LlmHttpError) =>
    /\ ToString(update.llm.status_code)
          \in Parts(get_openrouter_response(update.text, update.llm))
    /\ \A k \in 1..Len(outcome.sent) :
          ToString(update.llm.status_code) \in Parts(outcome.sent[k])

\* C6: POST /<telegram-token> returns HTTP 200 for every incoming POST,
\* whatever the body holds; no exception leaves the route.
C6_WebhookAlways200 ==
  Posted => (outcome.status = 200 /\ outcome.raised = <<>>)

====
